---------------------------- MODULE Spec2Model ----------------------------
(***************************************************************************)
(* A model of slate's operation applier (src/src/operations/apply.js) and  *)
(* of its by-key transforms (src/unnamed/part_000).                        *)
(*                                                                         *)
(* A node is a record [key, kind, nodes, characters, data]: the containers *)
(* (document, block, inline) carry `nodes`, a text carries `characters`,   *)
(* each a [text, marks] record.  Paths, indices, offsets and positions are *)
(* 0-based as in the source; TLA+ sequences are 1-based, so child i of a   *)
(* node n is n.nodes[i + 1].                                               *)
(***************************************************************************)
EXTENDS Integers, Sequences, FiniteSets, TLC

VARIABLES state, hist, ops, norm, threw

vars == <<state, hist, ops, norm, threw>>

\* The value of an unset selection key.
Null == -1

(***************************************************************************)
(* Sequence helpers (Immutable.List).                                      *)
(***************************************************************************)
Min(a, b) == IF a < b THEN a ELSE b

Max(a, b) == IF a > b THEN a ELSE b

\* List.take(n)
Take(s, n) == SubSeq(s, 1, Min(n, Len(s)))

\* List.skip(n)
Skip(s, n) == SubSeq(s, Min(n, Len(s)) + 1, Len(s))

\* List.insert(index, value): splice(index, 0, value); an index past the end
\* is clamped to the size.
ListInsert(s, index, v) == Take(s, index) \o <<v>> \o Skip(s, index)

\* List.delete(index)
ListDelete(s, index) == Take(s, index) \o Skip(s, index + 1)

\* List.indexOf(value): the first index holding value, -1 when absent.
IndexOf(s, v) ==
  IF \E i \in 1..Len(s) : s[i] = v
  THEN (CHOOSE i \in 1..Len(s) : s[i] = v /\ \A j \in 1..(i - 1) : s[j] # v) - 1
  ELSE -1

\* The last element dropped: path.slice(0, -1).
Front(s) == SubSeq(s, 1, Len(s) - 1)

Last(s) == s[Len(s)]

IsPrefix(p, q) == Len(p) <= Len(q) /\ \A i \in 1..Len(p) : p[i] = q[i]

(***************************************************************************)
(* Nodes.                                                                  *)
(***************************************************************************)
Text(key, characters) ==
  [key |-> key, kind |-> "text", nodes |-> <<>>, characters |-> characters, data |-> {}]

Container(kind, key, nodes) ==
  [key |-> key, kind |-> kind, nodes |-> nodes, characters |-> <<>>, data |-> {}]

\* Character.createListFromText(text, marks): text is a sequence of letters.
CreateCharacters(text, marks) == [i \in 1..Len(text) |-> [text |-> text[i], marks |-> marks]]

\* node.text of a text node: the letters of its characters.
TextOf(node) == [i \in 1..Len(node.characters) |-> node.characters[i].text]

\* node.length for a text, node.nodes.size for a container.
Size(node) == IF node.kind = "text" THEN Len(node.characters) ELSE Len(node.nodes)

RECURSIVE FlatMap(_, _)
RECURSIVE Texts(_)
RECURSIVE Keys(_)
RECURSIVE KeyCount(_, _)
RECURSIVE SumKeyCount(_, _)

\* node.getTexts(): the text nodes of the subtree in document order.
Texts(node) ==
  IF node.kind = "text" THEN <<node>>
  ELSE FlatMap(node.nodes, 1)

FlatMap(s, i) == IF i > Len(s) THEN <<>> ELSE Texts(s[i]) \o FlatMap(s, i + 1)

\* The keys of the subtree rooted at node.
Keys(node) == {node.key} \cup UNION {Keys(node.nodes[i]) : i \in 1..Len(node.nodes)}

\* How many nodes of the subtree carry `key`.
KeyCount(node, key) == (IF node.key = key THEN 1 ELSE 0) + SumKeyCount(node.nodes, key)

SumKeyCount(s, key) == IF s = <<>> THEN 0 ELSE KeyCount(Head(s), key) + SumKeyCount(Tail(s), key)

RECURSIVE PathOK(_, _)
\* Whether node.getDescendantAtPath(path) finds a node.
PathOK(node, path) ==
  IF path = <<>> THEN TRUE
  ELSE /\ Head(path) >= 0
       /\ Head(path) < Len(node.nodes)
       /\ PathOK(node.nodes[Head(path) + 1], Tail(path))

RECURSIVE AssertPath(_, _)
\* node.assertPath(path): the node at path (the caller guards with PathOK).
AssertPath(node, path) ==
  IF path = <<>> THEN node ELSE AssertPath(node.nodes[Head(path) + 1], Tail(path))

RECURSIVE Paths(_)
\* Every path that resolves in node, the empty path included.
Paths(node) ==
  {<<>>} \cup UNION {{<<i - 1>> \o p : p \in Paths(node.nodes[i])} : i \in 1..Len(node.nodes)}

\* node.hasNode(key)
HasNode(node, key) == key \in Keys(node)

\* node.getPath(key): the path of the node with key (the caller guards with
\* HasNode).
GetPath(node, key) ==
  LET ps == {p \in Paths(node) : AssertPath(node, p).key = key}
  IN CHOOSE p \in ps : TRUE

\* node.getNode(key)
GetNode(node, key) == AssertPath(node, GetPath(node, key))

\* node.getParent(key): the container holding the node with key as a child.
GetParent(node, key) == AssertPath(node, Front(GetPath(node, key)))

RECURSIVE Replace(_, _)
Replace(node, new) ==
  IF node.key = new.key THEN new
  ELSE [node EXCEPT !.nodes = [i \in 1..Len(node.nodes) |-> Replace(node.nodes[i], new)]]

\* node.updateDescendant(new): the descendant with new's key replaced by new.
UpdateDescendant(node, new) ==
  [node EXCEPT !.nodes = [i \in 1..Len(node.nodes) |-> Replace(node.nodes[i], new)]]

\* node.insertNode(index, child)
InsertNode(node, index, child) == [node EXCEPT !.nodes = ListInsert(node.nodes, index, child)]

\* node.removeNode(index)
RemoveNode(node, index) == [node EXCEPT !.nodes = ListDelete(node.nodes, index)]

\* node.splitNode(index, position): child `index` is replaced by its two
\* halves; the left keeps the key, the right gets the regenerated key.
SplitNode(node, index, position, newKey) ==
  LET child == node.nodes[index + 1]
      one == IF child.kind = "text"
             THEN [child EXCEPT !.characters = Take(child.characters, position)]
             ELSE [child EXCEPT !.nodes = Take(child.nodes, position)]
      two == IF child.kind = "text"
             THEN [child EXCEPT !.characters = Skip(child.characters, position), !.key = newKey]
             ELSE [child EXCEPT !.nodes = Skip(child.nodes, position), !.key = newKey]
  IN [node EXCEPT !.nodes = Take(node.nodes, index) \o <<one, two>> \o Skip(node.nodes, index + 1)]

\* node.joinNode(firstIndex, secondIndex): the second child is merged into
\* the first (characters or children appended) and removed.
JoinNode(node, firstIndex, secondIndex) ==
  LET first == node.nodes[firstIndex + 1]
      second == node.nodes[secondIndex + 1]
      joined == IF first.kind = "text"
                THEN [first EXCEPT !.characters = first.characters \o second.characters]
                ELSE [first EXCEPT !.nodes = first.nodes \o second.nodes]
      removed == ListDelete(node.nodes, secondIndex)
  IN [node EXCEPT !.nodes = [i \in 1..Len(removed) |->
                               IF i = firstIndex + 1 THEN joined ELSE removed[i]]]

\* The index in Texts(node) of the text with key, -1 when absent.
TextIndex(node, key) ==
  LET ts == Texts(node)
  IN IF \E i \in 1..Len(ts) : ts[i].key = key
     THEN (CHOOSE i \in 1..Len(ts) : ts[i].key = key /\ \A j \in 1..(i - 1) : ts[j].key # key) - 1
     ELSE -1

\* node.getFirstText() of the subtree with key, as a key (Null if none).
FirstTextKey(node) == IF Texts(node) = <<>> THEN Null ELSE Texts(node)[1].key

LastTextKey(node) == IF Texts(node) = <<>> THEN Null ELSE Last(Texts(node)).key

\* document.getPreviousText(key): for a text key the text before it in
\* document order; for a container key the text before its first text.
\* The result is a sequence of zero or one node (<<>> stands for null).
GetPreviousText(node, key) ==
  LET k == IF GetNode(node, key).kind = "text" THEN key ELSE FirstTextKey(GetNode(node, key))
      i == TextIndex(node, k)
  IN IF i <= 0 THEN <<>> ELSE <<Texts(node)[i]>>

\* document.getNextText(key): the text after it (after its last text for a
\* container) in document order.
GetNextText(node, key) ==
  LET k == IF GetNode(node, key).kind = "text" THEN key ELSE LastTextKey(GetNode(node, key))
      i == TextIndex(node, k)
  IN IF i < 0 \/ i + 2 > Len(Texts(node)) THEN <<>> ELSE <<Texts(node)[i + 2]>>

(***************************************************************************)
(* Selection: anchor and focus points and the stored isBackward flag, from *)
(* which start and end are read.                                           *)
(***************************************************************************)
Unset ==
  [anchorKey |-> Null, anchorOffset |-> 0, focusKey |-> Null, focusOffset |-> 0,
   isBackward |-> FALSE]

\* selection.isSet
IsSet(sel) == sel.anchorKey # Null /\ sel.focusKey # Null

StartKey(sel) == IF sel.isBackward THEN sel.focusKey ELSE sel.anchorKey

EndKey(sel) == IF sel.isBackward THEN sel.anchorKey ELSE sel.focusKey

StartOffset(sel) == IF sel.isBackward THEN sel.focusOffset ELSE sel.anchorOffset

EndOffset(sel) == IF sel.isBackward THEN sel.anchorOffset ELSE sel.focusOffset

\* The flag after an endpoint moved: recomputed from the offsets when both
\* points are on one node, kept otherwise.
Direction(sel) ==
  IF sel.anchorKey = sel.focusKey
  THEN [sel EXCEPT !.isBackward = sel.anchorOffset > sel.focusOffset]
  ELSE sel

\* selection.moveAnchorTo(key, offset)
MoveAnchorTo(sel, key, offset) ==
  Direction([sel EXCEPT !.anchorKey = key, !.anchorOffset = offset])

\* selection.moveFocusTo(key, offset)
MoveFocusTo(sel, key, offset) ==
  Direction([sel EXCEPT !.focusKey = key, !.focusOffset = offset])

\* selection.moveAnchor(n)
MoveAnchor(sel, n) == MoveAnchorTo(sel, sel.anchorKey, sel.anchorOffset + n)

\* selection.moveFocus(n)
MoveFocus(sel, n) == MoveFocusTo(sel, sel.focusKey, sel.focusOffset + n)

\* selection.moveStartTo(key, offset)
MoveStartTo(sel, key, offset) ==
  IF sel.isBackward THEN MoveFocusTo(sel, key, offset) ELSE MoveAnchorTo(sel, key, offset)

\* selection.moveEndTo(key, offset)
MoveEndTo(sel, key, offset) ==
  IF sel.isBackward THEN MoveAnchorTo(sel, key, offset) ELSE MoveFocusTo(sel, key, offset)

\* selection.deselect()
Deselect(sel) == Unset

(***************************************************************************)
(* Text nodes: characters, marks and ranges.                               *)
(***************************************************************************)
\* text.insertText(offset, text, marks)
InsertText(node, offset, text, marks) ==
  [node EXCEPT !.characters =
     Take(node.characters, offset) \o CreateCharacters(text, marks) \o Skip(node.characters, offset)]

\* text.removeText(offset, length)
RemoveText(node, offset, length) ==
  [node EXCEPT !.characters = Take(node.characters, offset) \o Skip(node.characters, offset + length)]

\* Whether 0-based character index i lies in [offset, offset + length).
InSpan(i, offset, length) == offset <= i /\ i < offset + length

\* text.addMark(offset, length, mark)
AddMark(node, offset, length, mark) ==
  [node EXCEPT !.characters = [i \in 1..Len(node.characters) |->
     IF InSpan(i - 1, offset, length)
     THEN [node.characters[i] EXCEPT !.marks = @ \cup {mark}]
     ELSE node.characters[i]]]

\* text.removeMark(offset, length, mark)
RemoveMark(node, offset, length, mark) ==
  [node EXCEPT !.characters = [i \in 1..Len(node.characters) |->
     IF InSpan(i - 1, offset, length)
     THEN [node.characters[i] EXCEPT !.marks = @ \ {mark}]
     ELSE node.characters[i]]]

\* text.updateMark(offset, length, mark, properties): the mark, where
\* present in the span, is replaced by the mark merged with properties.
UpdateMark(node, offset, length, mark, properties) ==
  [node EXCEPT !.characters = [i \in 1..Len(node.characters) |->
     IF InSpan(i - 1, offset, length) /\ mark \in node.characters[i].marks
     THEN [node.characters[i] EXCEPT !.marks = (@ \ {mark}) \cup {properties}]
     ELSE node.characters[i]]]

RECURSIVE RangesFrom(_, _)
\* The ranges of characters from 1-based index i on: maximal runs of
\* characters with equal marks.
RangesFrom(chars, i) ==
  IF i > Len(chars) THEN <<>>
  ELSE LET same == {j \in i..Len(chars) : \A k \in i..j : chars[k].marks = chars[i].marks}
           j == CHOOSE x \in same : \A y \in same : y <= x
       IN <<[text |-> [k \in 1..(j - i + 1) |-> chars[i + k - 1].text], marks |-> chars[i].marks]>>
          \o RangesFrom(chars, j + 1)

\* text.getRanges(): an empty text has one empty range.
GetRanges(node) ==
  IF node.characters = <<>> THEN <<[text |-> <<>>, marks |-> {}]>>
  ELSE RangesFrom(node.characters, 1)

(***************************************************************************)
(* The appliers (APPLIERS of apply.js).  Each is total on the operations   *)
(* whose paths resolve; the actions guard with the ...OK predicates, which *)
(* state when the source's assertPath and list accesses succeed.           *)
(***************************************************************************)
SetDocSel(st, document, selection) ==
  [st EXCEPT !.document = document, !.selection = selection]

\* add_mark
ApplyAddMark(st, op) ==
  LET node == AddMark(AssertPath(st.document, op.path), op.offset, op.length, op.mark)
  IN [st EXCEPT !.document = UpdateDescendant(st.document, node)]

\* insert_node
ApplyInsertNode(st, op) ==
  LET index == Last(op.path)
      rest == Front(op.path)
      parent0 == AssertPath(st.document, rest)
      isParent == st.document = parent0
      parent == InsertNode(parent0, index, op.node)
  IN [st EXCEPT !.document = IF isParent THEN parent ELSE UpdateDescendant(st.document, parent)]

\* ApplyInsertText with the points at the insertion offset left behind.
ApplyInsertTextStrict(st, op) ==
  LET sel0 == st.selection
      node == InsertText(AssertPath(st.document, op.path), op.offset, op.text, op.marks)
      document == UpdateDescendant(st.document, node)
      sel1 == IF sel0.anchorKey = node.key /\ sel0.anchorOffset > op.offset
              THEN MoveAnchor(sel0, Len(op.text)) ELSE sel0
      sel2 == IF sel0.focusKey = node.key /\ sel0.focusOffset > op.offset
              THEN MoveFocus(sel1, Len(op.text)) ELSE sel1
  IN SetDocSel(st, document, sel2)

\* insert_text
ApplyInsertText(st, op) ==
  LET sel0 == st.selection
      node == InsertText(AssertPath(st.document, op.path), op.offset, op.text, op.marks)
      document == UpdateDescendant(st.document, node)
      sel1 == IF sel0.anchorKey = node.key /\ sel0.anchorOffset >= op.offset
              THEN MoveAnchor(sel0, Len(op.text)) ELSE sel0
      sel2 == IF sel0.focusKey = node.key /\ sel0.focusOffset >= op.offset
              THEN MoveFocus(sel1, Len(op.text)) ELSE sel1
  IN SetDocSel(st, document, sel2)

\* ApplyJoinNode with the offsets of the second node's points not rebased.
ApplyJoinNodeNoBase(st, op) ==
  LET path == op.path
      withPath == Front(path) \o <<Last(path) - 1>>
      sel0 == st.selection
      one == AssertPath(st.document, withPath)
      two == AssertPath(st.document, path)
      parent0 == GetParent(st.document, one.key)
      parent == JoinNode(parent0, IndexOf(parent0.nodes, one), IndexOf(parent0.nodes, two))
      document == IF parent.key = st.document.key THEN parent
                  ELSE UpdateDescendant(st.document, parent)
      sel1 == IF one.kind = "text" /\ sel0.anchorKey = two.key
              THEN MoveAnchorTo(sel0, one.key, sel0.anchorOffset) ELSE sel0
      sel2 == IF one.kind = "text" /\ sel0.focusKey = two.key
              THEN MoveFocusTo(sel1, one.key, sel0.focusOffset) ELSE sel1
  IN SetDocSel(st, document, sel2)

\* join_node
ApplyJoinNode(st, op) ==
  LET path == op.path
      withPath == Front(path) \o <<Last(path) - 1>>
      sel0 == st.selection
      one == AssertPath(st.document, withPath)
      two == AssertPath(st.document, path)
      parent0 == GetParent(st.document, one.key)
      oneIndex == IndexOf(parent0.nodes, one)
      twoIndex == IndexOf(parent0.nodes, two)
      parent == JoinNode(parent0, oneIndex, twoIndex)
      document == IF parent.key = st.document.key THEN parent
                  ELSE UpdateDescendant(st.document, parent)
      sel1 == IF one.kind = "text" /\ sel0.anchorKey = two.key
              THEN MoveAnchorTo(sel0, one.key, Size(one) + sel0.anchorOffset) ELSE sel0
      sel2 == IF one.kind = "text" /\ sel0.focusKey = two.key
              THEN MoveFocusTo(sel1, one.key, Size(one) + sel0.focusOffset) ELSE sel1
  IN SetDocSel(st, document, sel2)

\* MoveTargetPath without the decrement of the index the removal shifted.
MoveTargetPathUnshifted(path, newPath) ==
  IF Front(path) = Front(newPath)
  THEN [reuse |-> TRUE, path |-> Front(path)]
  ELSE [reuse |-> FALSE, path |-> Front(newPath)]

\* move_node, lines 153-178: whether the updated old parent is reused as the
\* target, and otherwise the path at which the target is resolved in the
\* document the node was removed from.
MoveTargetPath(path, newPath) ==
  LET newParentPath == Front(newPath)
      oldParentPath == Front(path)
      oldIndex == Last(path)
      every == \A i \in 1..Len(oldParentPath) :
                 i <= Len(newParentPath) /\ oldParentPath[i] = newParentPath[i]
  IN IF every /\ Len(oldParentPath) = Len(newParentPath)
     THEN [reuse |-> TRUE, path |-> oldParentPath]
     ELSE IF every /\ Len(newParentPath) > Len(oldParentPath)
                   /\ oldIndex < newParentPath[Len(oldParentPath) + 1]
     THEN [reuse |-> FALSE, path |-> [newParentPath EXCEPT ![Len(oldParentPath) + 1] = @ - 1]]
     ELSE [reuse |-> FALSE, path |-> newParentPath]

\* MoveRemoved with the updated parent never written back to the document.
MoveRemovedNotWritten(document, path) ==
  LET node == AssertPath(document, path)
  IN [parent |-> RemoveNode(GetParent(document, node.key), Last(path)),
      document |-> document]

\* move_node, lines 146-151: the document with the node removed from its
\* parent, and that parent.
MoveRemoved(document, path) ==
  LET node == AssertPath(document, path)
      parent == RemoveNode(GetParent(document, node.key), Last(path))
  IN [parent |-> parent,
      document |-> IF parent.kind = "document" THEN parent
                   ELSE UpdateDescendant(document, parent)]

\* move_node
ApplyMoveNode(st, op) ==
  LET newIndex == Last(op.newPath)
      node == AssertPath(st.document, op.path)
      removed == MoveRemoved(st.document, op.path)
      where == MoveTargetPath(op.path, op.newPath)
      target0 == IF where.reuse THEN removed.parent
                 ELSE AssertPath(removed.document, where.path)
      target == InsertNode(target0, newIndex, node)
  IN [st EXCEPT !.document = IF target.kind = "document" THEN target
                             ELSE UpdateDescendant(removed.document, target)]

\* remove_mark
ApplyRemoveMark(st, op) ==
  LET node == RemoveMark(AssertPath(st.document, op.path), op.offset, op.length, op.mark)
  IN [st EXCEPT !.document = UpdateDescendant(st.document, node)]

\* RelocatePoint without the final deselect.
RelocatePointNoDeselect(sel, document, key, isStart) ==
  LET prev == GetPreviousText(document, key)
      next == GetNextText(document, key)
  IN IF prev # <<>>
     THEN IF isStart THEN MoveStartTo(sel, prev[1].key, Size(prev[1]))
          ELSE MoveEndTo(sel, prev[1].key, Size(prev[1]))
     ELSE IF next # <<>>
     THEN IF isStart THEN MoveStartTo(sel, next[1].key, 0)
          ELSE MoveEndTo(sel, next[1].key, 0)
     ELSE sel

\* remove_node, lines 225-236 and 238-249: where the start (isStart) or the
\* end point goes when its node is being removed.
RelocatePoint(sel, document, key, isStart) ==
  LET prev == GetPreviousText(document, key)
      next == GetNextText(document, key)
  IN IF prev # <<>>
     THEN IF isStart THEN MoveStartTo(sel, prev[1].key, Size(prev[1]))
          ELSE MoveEndTo(sel, prev[1].key, Size(prev[1]))
     ELSE IF next # <<>>
     THEN IF isStart THEN MoveStartTo(sel, next[1].key, 0)
          ELSE MoveEndTo(sel, next[1].key, 0)
     ELSE Deselect(sel)

\* remove_node
ApplyRemoveNode(st, op) ==
  LET sel0 == st.selection
      startKey == StartKey(sel0)
      endKey == EndKey(sel0)
      node == AssertPath(st.document, op.path)
      sel1 == IF IsSet(sel0) /\ HasNode(node, startKey)
              THEN RelocatePoint(sel0, st.document, startKey, TRUE) ELSE sel0
      sel2 == IF IsSet(sel0) /\ HasNode(node, endKey)
              THEN RelocatePoint(sel1, st.document, endKey, FALSE) ELSE sel1
      parent0 == GetParent(st.document, node.key)
      index == IndexOf(parent0.nodes, node)
      isParent == st.document = parent0
      parent == RemoveNode(parent0, index)
      document == IF isParent THEN parent ELSE UpdateDescendant(st.document, parent)
  IN SetDocSel(st, document, sel2)

\* ApplyRemoveText removing at the end of the span instead of its start.
ApplyRemoveTextAtEnd(st, op) ==
  LET length == Len(op.text)
      rangeOffset == op.offset + length
      sel0 == st.selection
      node0 == AssertPath(st.document, op.path)
      sel1 == IF sel0.anchorKey = node0.key /\ sel0.anchorOffset >= rangeOffset
              THEN MoveAnchor(sel0, 0 - length) ELSE sel0
      sel2 == IF sel0.focusKey = node0.key /\ sel0.focusOffset >= rangeOffset
              THEN MoveFocus(sel1, 0 - length) ELSE sel1
      node == RemoveText(node0, rangeOffset, length)
  IN SetDocSel(st, UpdateDescendant(st.document, node), sel2)

\* ApplyRemoveText leaving the selection as it was.
ApplyRemoveTextKeepsPoints(st, op) ==
  LET node0 == AssertPath(st.document, op.path)
      node == RemoveText(node0, op.offset, Len(op.text))
  IN SetDocSel(st, UpdateDescendant(st.document, node), st.selection)

\* remove_text
ApplyRemoveText(st, op) ==
  LET length == Len(op.text)
      rangeOffset == op.offset + length
      sel0 == st.selection
      node0 == AssertPath(st.document, op.path)
      sel1 == IF sel0.anchorKey = node0.key /\ sel0.anchorOffset >= rangeOffset
              THEN MoveAnchor(sel0, 0 - length) ELSE sel0
      sel2 == IF sel0.focusKey = node0.key /\ sel0.focusOffset >= rangeOffset
              THEN MoveFocus(sel1, 0 - length) ELSE sel1
      node == RemoveText(node0, op.offset, length)
  IN SetDocSel(st, UpdateDescendant(st.document, node), sel2)

\* set_data
ApplySetData(st, op) == [st EXCEPT !.data = @ \cup op.properties]

\* set_mark
ApplySetMark(st, op) ==
  LET node == UpdateMark(AssertPath(st.document, op.path), op.offset, op.length, op.mark,
                         op.properties)
  IN [st EXCEPT !.document = UpdateDescendant(st.document, node)]

\* SetNodeProperties with nothing dropped.
SetNodePropertiesKept(node, properties) == properties

\* set_node, lines 342-352: the properties record after the two checks;
\* properties is a function from some of the node's field names.
SetNodeProperties(node, properties) ==
  LET dropNodes == "nodes" \in DOMAIN properties /\ properties["nodes"] # node.nodes
      dropKey == "key" \in DOMAIN properties /\ properties["key"] # node.key
      keep == DOMAIN properties \ ((IF dropNodes THEN {"nodes"} ELSE {})
                                   \cup (IF dropKey THEN {"key"} ELSE {}))
  IN [f \in keep |-> properties[f]]

\* node.merge(properties)
Merge(node, properties) ==
  [f \in DOMAIN node |-> IF f \in DOMAIN properties THEN properties[f] ELSE node[f]]

\* set_node
ApplySetNode(st, op) ==
  LET node0 == AssertPath(st.document, op.path)
      node == Merge(node0, SetNodeProperties(node0, op.properties))
  IN [st EXCEPT !.document = IF node.kind = "document" THEN node
                             ELSE UpdateDescendant(st.document, node)]

\* selection.normalize(document): a selection whose keys do not resolve to
\* texts of the document is moved to the start of the first text (unset when
\* there is none); offsets are clamped to the text's length.
NormalizeSelection(sel, document) ==
  LET ok(k) == \E i \in 1..Len(Texts(document)) : Texts(document)[i].key = k
      len(k) == Size(GetNode(document, k))
  IN IF ~IsSet(sel) THEN sel
     ELSE IF ~ok(sel.anchorKey) \/ ~ok(sel.focusKey)
     THEN IF Texts(document) = <<>> THEN Unset
          ELSE [Unset EXCEPT !.anchorKey = Texts(document)[1].key,
                             !.focusKey = Texts(document)[1].key]
     ELSE Direction([sel EXCEPT !.anchorOffset = Max(0, Min(@, len(sel.anchorKey))),
                                !.focusOffset = Max(0, Min(@, len(sel.focusKey)))])

\* A null anchorPath or focusPath.
NullPath == <<Null>>

\* set_selection, lines 369-384: the properties with the anchorPath and
\* focusPath entries resolved to keys.
SelectionProperties(document, properties) ==
  LET resolve(p) == IF p = NullPath THEN Null ELSE AssertPath(document, p).key
      dom == (DOMAIN properties \ {"anchorPath", "focusPath"})
             \cup (IF "anchorPath" \in DOMAIN properties THEN {"anchorKey"} ELSE {})
             \cup (IF "focusPath" \in DOMAIN properties THEN {"focusKey"} ELSE {})
  IN [f \in dom |->
        IF f = "anchorKey" /\ "anchorPath" \in DOMAIN properties
        THEN resolve(properties["anchorPath"])
        ELSE IF f = "focusKey" /\ "focusPath" \in DOMAIN properties
        THEN resolve(properties["focusPath"])
        ELSE properties[f]]

\* set_selection
ApplySetSelection(st, op) ==
  LET selection == Merge(st.selection, SelectionProperties(st.document, op.properties))
  IN [st EXCEPT !.selection = NormalizeSelection(selection, st.document)]

\* ApplySplitNode leaving a point at the position of the split where it was.
ApplySplitNodeStrict(st, op) ==
  LET node == AssertPath(st.document, op.path)
      parent0 == GetParent(st.document, node.key)
      index == IndexOf(parent0.nodes, node)
      isParent == parent0 = st.document
      parent == SplitNode(parent0, index, op.position, st.keygen)
      document == IF isParent THEN parent ELSE UpdateDescendant(st.document, parent)
      sel0 == st.selection
      startKey == StartKey(sel0)
      endKey == EndKey(sel0)
      startOffset == StartOffset(sel0)
      endOffset == EndOffset(sel0)
      next == GetNextText(document, node.key)
      sel1 == IF node.key = startKey /\ op.position < startOffset
              THEN MoveStartTo(sel0, next[1].key, startOffset - op.position) ELSE sel0
      sel2 == IF node.key = endKey /\ op.position < endOffset
              THEN MoveEndTo(sel1, next[1].key, endOffset - op.position) ELSE sel1
  IN [st EXCEPT !.document = document, !.selection = sel2, !.keygen = @ + 1]

\* split_node
ApplySplitNode(st, op) ==
  LET node == AssertPath(st.document, op.path)
      parent0 == GetParent(st.document, node.key)
      index == IndexOf(parent0.nodes, node)
      isParent == parent0 = st.document
      parent == SplitNode(parent0, index, op.position, st.keygen)
      document == IF isParent THEN parent ELSE UpdateDescendant(st.document, parent)
      sel0 == st.selection
      startKey == StartKey(sel0)
      endKey == EndKey(sel0)
      startOffset == StartOffset(sel0)
      endOffset == EndOffset(sel0)
      next == GetNextText(document, node.key)
      sel1 == IF node.key = startKey /\ op.position <= startOffset
              THEN MoveStartTo(sel0, next[1].key, startOffset - op.position) ELSE sel0
      sel2 == IF node.key = endKey /\ op.position <= endOffset
              THEN MoveEndTo(sel1, next[1].key, endOffset - op.position) ELSE sel1
  IN [st EXCEPT !.document = document, !.selection = sel2, !.keygen = @ + 1]

\* The operation tags of APPLIERS.
Types ==
  {"add_mark", "insert_node", "insert_text", "join_node", "move_node", "remove_mark",
   "remove_node", "remove_text", "set_data", "set_mark", "set_node", "set_selection",
   "split_node"}

\* applyOperation, for an operation with a known tag.
ApplyOperation(st, op) ==
  CASE op.type = "add_mark" -> ApplyAddMark(st, op)
    [] op.type = "insert_node" -> ApplyInsertNode(st, op)
    [] op.type = "insert_text" -> ApplyInsertText(st, op)
    [] op.type = "join_node" -> ApplyJoinNode(st, op)
    [] op.type = "move_node" -> ApplyMoveNode(st, op)
    [] op.type = "remove_mark" -> ApplyRemoveMark(st, op)
    [] op.type = "remove_node" -> ApplyRemoveNode(st, op)
    [] op.type = "remove_text" -> ApplyRemoveText(st, op)
    [] op.type = "set_data" -> ApplySetData(st, op)
    [] op.type = "set_mark" -> ApplySetMark(st, op)
    [] op.type = "set_node" -> ApplySetNode(st, op)
    [] op.type = "set_selection" -> ApplySetSelection(st, op)
    [] op.type = "split_node" -> ApplySplitNode(st, op)

\* The names APPLIERS inherits: it is an object literal (line 19), so the
\* lookup APPLIERS[type] of line 445 also finds the properties of
\* Object.prototype.  Of these the inputs draw "constructor", which is Object.
Inherited == {"constructor"}

\* applyOperation, lines 444-453: the state returned, as a sequence of one
\* state, or the empty sequence when the lookup finds nothing and the call
\* throws.  For "constructor" the handler found is Object, and
\* Object(state, operation) is state itself.
Returned(st, op) ==
  IF op.type \in Types THEN <<ApplyOperation(st, op)>>
  ELSE IF op.type \in Inherited THEN <<st>>
  ELSE <<>>

\* The operation record as applyOperation leaves it.  set_node deletes the
\* entries it rejects from operation.properties itself (lines 338, 345 and
\* 351); move_node changes a copy of newPath (142, 171), set_selection a
\* copy of properties (369), and the other handlers only read the record.
OperationAfter(st, op) ==
  IF op.type = "set_node"
  THEN [op EXCEPT !.properties = SetNodeProperties(AssertPath(st.document, op.path), @)]
  ELSE op

(***************************************************************************)
(* Transforms (part_000).  A transform carries the current state, the      *)
(* operations applied so far, the calls made to normalizeNodeByKey and     *)
(* whether a function threw; the normalizer itself is an external          *)
(* collaborator and changes nothing here.                                  *)
(***************************************************************************)
NewTransform(st) == [state |-> st, ops |-> <<>>, norm |-> <<>>, error |-> FALSE]

\* transform.applyOperation(operation)
TransformApply(tr, op) ==
  [tr EXCEPT !.state = ApplyOperation(tr.state, op), !.ops = Append(@, op)]

\* transform.normalizeNodeByKey(key, SCHEMA): the key, and how many
\* operations the transform had applied when the normalizer was called.
NormalizeNodeByKey(tr, key) ==
  [tr EXCEPT !.norm = Append(@, [key |-> key, after |-> Len(tr.ops)])]

\* A throw inside a transform function: nothing further runs.
Throw(tr) == [tr EXCEPT !.error = TRUE]

\* The normalize gate that ends a transform.
NormalizeIf(tr, normalize, key) == IF normalize THEN NormalizeNodeByKey(tr, key) ELSE tr

\* document.getClosestBlock(key): the key of the nearest block ancestor
\* (Null when there is none).
GetClosestBlock(document, key) ==
  LET path == GetPath(document, key)
      blocks == {n \in 0..(Len(path) - 1) :
                   AssertPath(document, SubSeq(path, 1, n)).kind = "block"}
  IN IF blocks = {} THEN Null
     ELSE AssertPath(document, SubSeq(path, 1, CHOOSE n \in blocks : \A m \in blocks : m <= n)).key

\* document.getCommonAncestor(one, two): the key of the deepest container
\* that is an ancestor of both.
GetCommonAncestor(document, one, two) ==
  LET p == Front(GetPath(document, one))
      q == IF two = document.key THEN <<>> ELSE Front(GetPath(document, two))
      common == {n \in 0..Min(Len(p), Len(q)) : SubSeq(p, 1, n) = SubSeq(q, 1, n)}
  IN AssertPath(document, SubSeq(p, 1, CHOOSE n \in common : \A m \in common : m <= n)).key

\* Transforms.addMarkByKey
AddMarkByKey(tr, key, offset, length, mark, normalize) ==
  LET document == tr.state.document
      op == [type |-> "add_mark", path |-> GetPath(document, key), offset |-> offset,
             length |-> length, mark |-> mark]
  IN NormalizeIf(TransformApply(tr, op), normalize, GetParent(document, key).key)

\* Transforms.insertNodeByKey
InsertNodeByKey(tr, key, index, node, normalize) ==
  LET document == tr.state.document
      op == [type |-> "insert_node", path |-> GetPath(document, key) \o <<index>>,
             node |-> node]
  IN NormalizeIf(TransformApply(tr, op), normalize, key)

\* Transforms.insertTextByKey
InsertTextByKey(tr, key, offset, text, marks, normalize) ==
  LET document == tr.state.document
      op == [type |-> "insert_text", path |-> GetPath(document, key), offset |-> offset,
             text |-> text, marks |-> marks]
  IN NormalizeIf(TransformApply(tr, op), normalize, GetParent(document, key).key)

\* document.getPreviousSibling(key): <<>> when the node is a first child.
GetPreviousSibling(document, key) ==
  LET path == GetPath(document, key)
  IN IF Last(path) = 0 THEN <<>>
     ELSE <<AssertPath(document, Front(path) \o <<Last(path) - 1>>)>>

\* JoinNodeByKey that returns quietly when there is no previous sibling.
JoinNodeByKeySilent(tr, key, normalize) ==
  LET document == tr.state.document
      path == GetPath(document, key)
      previous == GetPreviousSibling(document, key)
      op == [type |-> "join_node", path |-> path, position |-> Size(previous[1])]
  IN IF previous = <<>> THEN tr
     ELSE NormalizeIf(TransformApply(tr, op), normalize, GetParent(document, key).key)

\* Transforms.joinNodeByKey
JoinNodeByKey(tr, key, normalize) ==
  LET document == tr.state.document
      path == GetPath(document, key)
      previous == GetPreviousSibling(document, key)
      op == [type |-> "join_node", path |-> path, position |-> Size(previous[1])]
  IN IF previous = <<>> THEN Throw(tr)
     ELSE NormalizeIf(TransformApply(tr, op), normalize, GetParent(document, key).key)

\* Transforms.moveNodeByKey
MoveNodeByKey(tr, key, newKey, newIndex, normalize) ==
  LET document == tr.state.document
      op == [type |-> "move_node", path |-> GetPath(document, key),
             newPath |-> GetPath(document, newKey) \o <<newIndex>>]
  IN NormalizeIf(TransformApply(tr, op), normalize, GetCommonAncestor(document, key, newKey))

\* Transforms.removeMarkByKey
RemoveMarkByKey(tr, key, offset, length, mark, normalize) ==
  LET document == tr.state.document
      op == [type |-> "remove_mark", path |-> GetPath(document, key), offset |-> offset,
             length |-> length, mark |-> mark]
  IN NormalizeIf(TransformApply(tr, op), normalize, GetParent(document, key).key)

\* Transforms.removeNodeByKey
RemoveNodeByKey(tr, key, normalize) ==
  LET document == tr.state.document
      op == [type |-> "remove_node", path |-> GetPath(document, key),
             node |-> GetNode(document, key)]
  IN NormalizeIf(TransformApply(tr, op), normalize, GetParent(document, key).key)

RECURSIVE Removals(_, _, _, _, _, _)
\* removeTextByKey, lines 251-278: the remove_text operations for ranges i
\* and on, o being the offset at which range i starts.
Removals(ranges, i, o, text, path, span) ==
  IF i > Len(ranges) THEN <<>>
  ELSE LET bx == span[1]
           by == span[2]
           ax == o
           ay == ax + Len(ranges[i].text)
           start == Max(ax, bx)
           end == Min(ay, by)
           rest == Removals(ranges, i + 1, o + Len(ranges[i].text), text, path, span)
       IN IF ay < bx \/ by < ax THEN rest
          ELSE <<[type |-> "remove_text", path |-> path, offset |-> start,
                  text |-> SubSeq(text, start + 1, end), marks |-> ranges[i].marks]>> \o rest

\* removals.reverse()
Reverse(s) == [i \in 1..Len(s) |-> s[Len(s) + 1 - i]]

RECURSIVE ApplyAll(_, _)
\* removals.forEach(op => transform.applyOperation(op))
ApplyAll(tr, list) ==
  IF list = <<>> THEN tr ELSE ApplyAll(TransformApply(tr, Head(list)), Tail(list))

\* RemoveTextByKey applying the removals in document order.
RemoveTextByKeyForward(tr, key, offset, length, normalize) ==
  LET document == tr.state.document
      path == GetPath(document, key)
      node == GetNode(document, key)
      removals == Removals(GetRanges(node), 1, 0, TextOf(node), path, <<offset, offset + length>>)
  IN NormalizeIf(ApplyAll(tr, removals), normalize, GetClosestBlock(document, key))

\* RemoveTextByKey normalizing the parent of the text.
RemoveTextByKeyParent(tr, key, offset, length, normalize) ==
  LET document == tr.state.document
      path == GetPath(document, key)
      node == GetNode(document, key)
      removals == Removals(GetRanges(node), 1, 0, TextOf(node), path, <<offset, offset + length>>)
  IN NormalizeIf(ApplyAll(tr, Reverse(removals)), normalize, GetParent(document, key).key)

\* Transforms.removeTextByKey
RemoveTextByKey(tr, key, offset, length, normalize) ==
  LET document == tr.state.document
      path == GetPath(document, key)
      node == GetNode(document, key)
      removals == Removals(GetRanges(node), 1, 0, TextOf(node), path, <<offset, offset + length>>)
  IN NormalizeIf(ApplyAll(tr, Reverse(removals)), normalize, GetClosestBlock(document, key))

\* Transforms.setMarkByKey
SetMarkByKey(tr, key, offset, length, mark, properties, normalize) ==
  LET document == tr.state.document
      op == [type |-> "set_mark", path |-> GetPath(document, key), offset |-> offset,
             length |-> length, mark |-> mark, properties |-> properties]
  IN NormalizeIf(TransformApply(tr, op), normalize, GetParent(document, key).key)

\* Transforms.setNodeByKey
SetNodeByKey(tr, key, properties, normalize) ==
  LET document == tr.state.document
      op == [type |-> "set_node", path |-> GetPath(document, key),
             node |-> GetNode(document, key), properties |-> properties]
  IN NormalizeIf(TransformApply(tr, op), normalize, key)

\* Transforms.splitNodeByKey
SplitNodeByKey(tr, key, position, normalize) ==
  LET document == tr.state.document
      op == [type |-> "split_node", path |-> GetPath(document, key), position |-> position]
  IN NormalizeIf(TransformApply(tr, op), normalize, GetParent(document, key).key)

\* SplitChain that stops below the node with key.
SplitChainBelow(document, key, textKey) ==
  LET path == GetPath(document, textKey)
      top == Len(GetPath(document, key))
  IN [i \in 1..(Len(path) - top) |-> AssertPath(document, SubSeq(path, 1, Len(path) + 1 - i))]

\* splitDescendantsByKey, lines 405-407: the text and its ancestors up to
\* the node with key, as found in the document the call started from.
SplitChain(document, key, textKey) ==
  LET path == GetPath(document, textKey)
      top == Len(GetPath(document, key))
  IN [i \in 1..(Len(path) - top + 1) |-> AssertPath(document, SubSeq(path, 1, Len(path) + 1 - i))]

RECURSIVE SplitEachNormalizing(_, _, _, _)
\* SplitEach with every split normalizing.
SplitEachNormalizing(tr, nodes, i, textOffset) ==
  IF i > Len(nodes) THEN tr
  ELSE LET index == IF i > 1 THEN IndexOf(nodes[i].nodes, nodes[i - 1]) + 1 ELSE textOffset
       IN SplitEachNormalizing(SplitNodeByKey(tr, nodes[i].key, index, TRUE), nodes, i + 1,
                               textOffset)

RECURSIVE SplitEachAtChild(_, _, _, _)
\* SplitEach splitting an ancestor at the index of the child split before
\* it, not after it.
SplitEachAtChild(tr, nodes, i, textOffset) ==
  IF i > Len(nodes) THEN tr
  ELSE LET index == IF i > 1 THEN IndexOf(nodes[i].nodes, nodes[i - 1]) ELSE textOffset
       IN SplitEachAtChild(SplitNodeByKey(tr, nodes[i].key, index, FALSE), nodes, i + 1,
                           textOffset)

RECURSIVE SplitEach(_, _, _, _)
\* splitDescendantsByKey, lines 410-414: nodes i and on of the chain.
SplitEach(tr, nodes, i, textOffset) ==
  IF i > Len(nodes) THEN tr
  ELSE LET index == IF i > 1 THEN IndexOf(nodes[i].nodes, nodes[i - 1]) + 1 ELSE textOffset
       IN SplitEach(SplitNodeByKey(tr, nodes[i].key, index, FALSE), nodes, i + 1, textOffset)

\* Transforms.splitDescendantsByKey
SplitDescendantsByKey(tr, key, textKey, textOffset, normalize) ==
  IF key = textKey THEN SplitNodeByKey(tr, textKey, textOffset, normalize)
  ELSE LET document == tr.state.document
       IN NormalizeIf(SplitEach(tr, SplitChain(document, key, textKey), 1, textOffset),
                      normalize, GetParent(document, key).key)

\* UnwrapNodeByKey that moves an only child out and leaves the parent.
UnwrapNodeByKeyKeepsParent(tr, key, normalize) ==
  LET document == tr.state.document
      parent == GetParent(document, key)
      index == IndexOf(parent.nodes, GetNode(parent, key))
      parentParent == GetParent(document, parent.key)
      parentIndex == IndexOf(parentParent.nodes, parent)
  IN IF index = 0
     THEN MoveNodeByKey(tr, key, parentParent.key, parentIndex, normalize)
     ELSE IF index = Len(parent.nodes) - 1
     THEN MoveNodeByKey(tr, key, parentParent.key, parentIndex + 1, normalize)
     ELSE NormalizeIf(
            MoveNodeByKey(SplitNodeByKey(tr, parent.key, index, FALSE),
                          key, parentParent.key, parentIndex + 1, FALSE),
            normalize, parentParent.key)

\* UnwrapNodeByKey that moves a last child before its parent.
UnwrapNodeByKeyBeforeParent(tr, key, normalize) ==
  LET document == tr.state.document
      parent == GetParent(document, key)
      index == IndexOf(parent.nodes, GetNode(parent, key))
      parentParent == GetParent(document, parent.key)
      parentIndex == IndexOf(parentParent.nodes, parent)
  IN IF Len(parent.nodes) = 1
     THEN RemoveNodeByKey(MoveNodeByKey(tr, key, parentParent.key, parentIndex, FALSE),
                          parent.key, normalize)
     ELSE IF index = 0 \/ index = Len(parent.nodes) - 1
     THEN MoveNodeByKey(tr, key, parentParent.key, parentIndex, normalize)
     ELSE NormalizeIf(
            MoveNodeByKey(SplitNodeByKey(tr, parent.key, index, FALSE),
                          key, parentParent.key, parentIndex + 1, FALSE),
            normalize, parentParent.key)

\* Transforms.unwrapNodeByKey
UnwrapNodeByKey(tr, key, normalize) ==
  LET document == tr.state.document
      parent == GetParent(document, key)
      node == GetNode(parent, key)
      index == IndexOf(parent.nodes, node)
      isFirst == index = 0
      isLast == index = Len(parent.nodes) - 1
      parentParent == GetParent(document, parent.key)
      parentIndex == IndexOf(parentParent.nodes, parent)
  IN IF Len(parent.nodes) = 1
     THEN RemoveNodeByKey(MoveNodeByKey(tr, key, parentParent.key, parentIndex, FALSE),
                          parent.key, normalize)
     ELSE IF isFirst
     THEN MoveNodeByKey(tr, key, parentParent.key, parentIndex, normalize)
     ELSE IF isLast
     THEN MoveNodeByKey(tr, key, parentParent.key, parentIndex + 1, normalize)
     ELSE NormalizeIf(
            MoveNodeByKey(SplitNodeByKey(tr, parent.key, index, FALSE),
                          key, parentParent.key, parentIndex + 1, FALSE),
            normalize, parentParent.key)

\* WrapByKey with the children of the template kept.
WrapByKeyKeepsChildren(tr, key, container, normalize) ==
  LET document == tr.state.document
      node == GetNode(document, key)
      parent == GetParent(document, node.key)
      index == IndexOf(parent.nodes, node)
  IN MoveNodeByKey(InsertNodeByKey(tr, parent.key, index, container, FALSE),
                   node.key, container.key, 0, normalize)

\* wrapInlineByKey and wrapBlockByKey, lines 528-537 and 551-560: the
\* container (Normalize.inline or Normalize.block of the template) emptied,
\* inserted at the node's index and the node moved into it.
WrapByKey(tr, key, container, normalize) ==
  LET empty == [container EXCEPT !.nodes = <<>>]
      document == tr.state.document
      node == GetNode(document, key)
      parent == GetParent(document, node.key)
      index == IndexOf(parent.nodes, node)
  IN MoveNodeByKey(InsertNodeByKey(tr, parent.key, index, empty, FALSE),
                   node.key, empty.key, 0, normalize)

\* Transforms.wrapInlineByKey
WrapInlineByKey(tr, key, inline, normalize) == WrapByKey(tr, key, inline, normalize)

\* Transforms.wrapBlockByKey
WrapBlockByKey(tr, key, block, normalize) == WrapByKey(tr, key, block, normalize)

(***************************************************************************)
(* The state machine: a state (document, selection, data and the key       *)
(* generator), the calls made so far with the state each started from, and *)
(* the operations and normalizer calls of the last call.                   *)
(***************************************************************************)
\* How many calls a behaviour makes.
MaxSteps == 2

\* The longest string insert_text is given.
MaxInsert == 2

Chars(text, marks) == CreateCharacters(text, marks)

\* block 1 holds three children, one of them an inline with a single text.
DocA ==
  Container("document", 0, <<
    Container("block", 1, <<
      Text(2, Chars(<<"a">>, {}) \o Chars(<<"b">>, {"bold"})),
      Container("inline", 3, <<Text(4, Chars(<<"c">>, {}))>>),
      Text(5, Chars(<<"d">>, {}))>>),
    Container("block", 6, <<Text(7, Chars(<<"e">>, {}))>>)>>)

\* A single text, in two ranges.
DocB ==
  Container("document", 0, <<
    Container("block", 1, <<
      Text(2, Chars(<<"a">>, {"bold"}) \o Chars(<<"b", "c">>, {}))>>)>>)

\* A text long enough for an anchor at offset 5.
DocC ==
  Container("document", 0, <<
    Container("block", 1, <<Text(2, Chars(<<"a", "b", "c", "d", "e", "f">>, {}))>>),
    Container("block", 3, <<Text(4, Chars(<<"g">>, {"bold"}))>>)>>)

Sel(ak, ao, fk, fo, back) ==
  [anchorKey |-> ak, anchorOffset |-> ao, focusKey |-> fk, focusOffset |-> fo,
   isBackward |-> back]

StatesOf(document, keygen, selections) ==
  {[document |-> document, selection |-> sel, data |-> {}, keygen |-> keygen] :
     sel \in selections}

StatesA ==
  StatesOf(DocA, 8, {Unset, Sel(2, 1, 2, 1, FALSE), Sel(2, 1, 5, 1, FALSE),
                     Sel(4, 0, 4, 1, FALSE), Sel(5, 1, 2, 0, TRUE), Sel(4, 1, 7, 0, FALSE)})

StatesB == StatesOf(DocB, 3, {Unset, Sel(2, 1, 2, 3, FALSE), Sel(2, 2, 2, 0, TRUE)})

StatesC == StatesOf(DocC, 5, {Sel(2, 5, 2, 5, FALSE), Sel(2, 5, 4, 1, FALSE)})

InitOf(states) ==
  /\ state \in states
  /\ hist = <<>>
  /\ ops = <<>>
  /\ norm = <<>>
  /\ threw = FALSE

\* The paths of the containers and of the texts of the document.
ContainerPaths(document) == {p \in Paths(document) : AssertPath(document, p).kind # "text"}

TextPaths(document) == {p \in Paths(document) : AssertPath(document, p).kind = "text"}

NodePaths(document) == Paths(document) \ {<<>>}

\* The strings given to insert_text.
Strings == {SubSeq(<<"x", "y", "z", "w">>, 1, n) : n \in 1..MaxInsert}

MarkSets == {{}, {"bold"}}

Marks == {"bold", "italic"}

\* Whether the behaviour makes another call.
More == Len(hist) < MaxSteps

\* applyOperation(state, op) called directly.
Applied(op, st) ==
  /\ state' = st
  /\ hist' = Append(hist, [call |-> op, before |-> state,
                           record |-> OperationAfter(state, op)])
  /\ ops' = <<op>>
  /\ norm' = <<>>
  /\ threw' = FALSE

\* applyOperation(state, op) that threw: the caller is left with the state
\* it had.
Thrown(op) ==
  /\ state' = state
  /\ hist' = Append(hist, [call |-> op, before |-> state, record |-> op])
  /\ ops' = <<>>
  /\ norm' = <<>>
  /\ threw' = TRUE

Apply(op) ==
  \E returned \in {Returned(state, op)} :
    IF returned = <<>> THEN Thrown(op) ELSE Applied(op, returned[1])

\* insert_text of one of texts with one of markSets.
DoInsertText(texts, markSets) ==
  \E path \in TextPaths(state.document), text \in texts, marks \in markSets :
    \E offset \in 0..Size(AssertPath(state.document, path)) :
      Apply([type |-> "insert_text", path |-> path, offset |-> offset, text |-> text,
             marks |-> marks])

\* The non-empty spans [offset, offset + length) of a text, as pairs.
Spans(node) ==
  {sp \in (0..Size(node)) \X (1..Size(node)) : sp[1] + sp[2] <= Size(node)}

DoRemoveText ==
  \E path \in TextPaths(state.document) :
    LET node == AssertPath(state.document, path)
    IN \E sp \in Spans(node) :
         Apply([type |-> "remove_text", path |-> path, offset |-> sp[1],
                text |-> SubSeq(TextOf(node), sp[1] + 1, sp[1] + sp[2])])

\* Nodes as a caller creates them (Node.create draws the keys from the
\* key generator): a text, and a block holding a text.
CreatedNodes(k) ==
  {Text(k, Chars(<<"n">>, {})), Container("block", k, <<Text(k + 1, Chars(<<"m">>, {}))>>)}

DoInsertNode ==
  \E parent \in ContainerPaths(state.document), node \in CreatedNodes(state.keygen) :
    \E index \in 0..Size(AssertPath(state.document, parent)) :
      LET op == [type |-> "insert_node", path |-> parent \o <<index>>, node |-> node]
      IN Applied(op, [ApplyOperation(state, op) EXCEPT !.keygen = @ + 2])

DoRemoveNode ==
  \E path \in NodePaths(state.document) :
    Apply([type |-> "remove_node", path |-> path])

\* move_node resolves its target: the path it looks up exists in the
\* document the node was removed from.
MoveOK(document, path, newPath) ==
  LET where == MoveTargetPath(path, newPath)
  IN IF where.reuse THEN TRUE ELSE PathOK(MoveRemoved(document, path).document, where.path)

\* The destinations of a move: an index in a container that is neither the
\* moved node nor inside it.
Destinations(document, path) ==
  UNION {{parent \o <<index>> : index \in 0..Size(AssertPath(document, parent))} :
           parent \in {q \in ContainerPaths(document) : ~IsPrefix(path, q)}}

DoMoveNode ==
  \E path \in NodePaths(state.document) :
    \E newPath \in Destinations(state.document, path) :
      /\ MoveOK(state.document, path, newPath)
      /\ Apply([type |-> "move_node", path |-> path, newPath |-> newPath])

DoSplitNode ==
  \E path \in NodePaths(state.document) :
    \E position \in 0..Size(AssertPath(state.document, path)) :
      Apply([type |-> "split_node", path |-> path, position |-> position])

\* The previous sibling's path: path with its last index decremented.
PreviousPath(path) == Front(path) \o <<Last(path) - 1>>

\* join_node resolves both paths and joins two texts or two containers.
JoinOK(document, path) ==
  /\ path # <<>>
  /\ Last(path) >= 1
  /\ PathOK(document, path)
  /\ (AssertPath(document, path).kind = "text")
       <=> (AssertPath(document, PreviousPath(path)).kind = "text")

DoJoinNode ==
  \E path \in NodePaths(state.document) :
    /\ JoinOK(state.document, path)
    /\ Apply([type |-> "join_node", path |-> path,
              position |-> Size(AssertPath(state.document, PreviousPath(path)))])

DoAddMark(marks) ==
  \E path \in TextPaths(state.document), mark \in marks :
    \E sp \in Spans(AssertPath(state.document, path)) :
      Apply([type |-> "add_mark", path |-> path, offset |-> sp[1], length |-> sp[2],
             mark |-> mark])

DoRemoveMark(marks) ==
  \E path \in TextPaths(state.document), mark \in marks :
    \E sp \in Spans(AssertPath(state.document, path)) :
      Apply([type |-> "remove_mark", path |-> path, offset |-> sp[1], length |-> sp[2],
             mark |-> mark])

DoSetMark ==
  \E path \in TextPaths(state.document) :
    \E sp \in Spans(AssertPath(state.document, path)) :
      Apply([type |-> "set_mark", path |-> path, offset |-> sp[1], length |-> sp[2],
             mark |-> "bold", properties |-> "strong"])

\* The properties set_node is given: data alone, data with another key,
\* data with another child list, and the node's own key and children.
NodeProperties(node) ==
  {[f \in {"data"} |-> {"d"}],
   [f \in {"data", "key"} |-> IF f = "key" THEN node.key + 100 ELSE {"d"}],
   [f \in {"data", "nodes"} |-> IF f = "nodes" THEN <<Text(node.key + 100, <<>>)>> ELSE {"d"}],
   [f \in {"key", "nodes"} |-> IF f = "key" THEN node.key ELSE node.nodes]}

DoSetNode ==
  \E path \in Paths(state.document) :
    \E properties \in NodeProperties(AssertPath(state.document, path)) :
      Apply([type |-> "set_node", path |-> path, properties |-> properties])

\* The properties set_selection is given: both points at the start of a
\* text by path, both points nulled, and the focus offset alone.
SelectionPropertySets(document) ==
  {[f \in {"anchorPath", "focusPath", "anchorOffset", "focusOffset"} |->
      IF f \in {"anchorPath", "focusPath"} THEN p ELSE 0] : p \in TextPaths(document)}
  \cup {[f \in {"anchorPath", "focusPath"} |-> NullPath]}
  \cup {[f \in {"focusOffset"} |-> 1]}

DoSetSelection ==
  \E properties \in SelectionPropertySets(state.document) :
    Apply([type |-> "set_selection", properties |-> properties])

DoSetData ==
  \E properties \in {{"k"}} :
    Apply([type |-> "set_data", properties |-> properties])

\* A transform called on the current state.
Called(call, tr) ==
  /\ state' = tr.state
  /\ hist' = Append(hist, [call |-> call, before |-> state, record |-> call])
  /\ ops' = tr.ops
  /\ norm' = tr.norm
  /\ threw' = tr.error

\* The keys of the containers and of the texts of the document.
ContainerKeys(document) == {AssertPath(document, p).key : p \in ContainerPaths(document)}

TextKeys(document) == {AssertPath(document, p).key : p \in TextPaths(document)}

CallMoveNodeByKey ==
  \E key \in Keys(state.document) \ {state.document.key}, normalize \in BOOLEAN :
    \E newPath \in Destinations(state.document, GetPath(state.document, key)) :
      LET newKey == AssertPath(state.document, Front(newPath)).key
      IN /\ MoveOK(state.document, GetPath(state.document, key), newPath)
         /\ Called([type |-> "moveNodeByKey", key |-> key, newKey |-> newKey,
                    newIndex |-> Last(newPath), normalize |-> normalize],
                   MoveNodeByKey(NewTransform(state), key, newKey, Last(newPath), normalize))

CallRemoveNodeByKey ==
  \E key \in Keys(state.document) \ {state.document.key}, normalize \in BOOLEAN :
    Called([type |-> "removeNodeByKey", key |-> key, normalize |-> normalize],
           RemoveNodeByKey(NewTransform(state), key, normalize))

\* The spans [offset, offset + length) of a text, the empty ones included.
AllSpans(node) ==
  {sp \in (0..Size(node)) \X (0..Size(node)) : sp[1] + sp[2] <= Size(node)}

\* removeTextByKey normalizes the closest block: the text has one.
CallRemoveTextByKey ==
  \E key \in TextKeys(state.document), normalize \in BOOLEAN :
    \E sp \in AllSpans(GetNode(state.document, key)) :
      /\ GetClosestBlock(state.document, key) # Null
      /\ Called([type |-> "removeTextByKey", key |-> key, offset |-> sp[1],
                 length |-> sp[2], normalize |-> normalize],
                RemoveTextByKey(NewTransform(state), key, sp[1], sp[2], normalize))

\* unwrapNodeByKey reads the parent's parent: the node's parent is not the
\* document.
CallUnwrapNodeByKey ==
  \E key \in Keys(state.document) \ {state.document.key}, normalize \in BOOLEAN :
    /\ Len(GetPath(state.document, key)) >= 2
    /\ Called([type |-> "unwrapNodeByKey", key |-> key, normalize |-> normalize],
              UnwrapNodeByKey(NewTransform(state), key, normalize))

\* Tags that APPLIERS does not have.
UnknownTypes == {"insertText", "constructor"}

\* applyOperation given an operation with an unknown tag.
DoUnknown ==
  \E type \in UnknownTypes : Apply([type |-> type, path |-> <<0>>])

CallJoinNodeByKey ==
  \E key \in Keys(state.document) \ {state.document.key}, normalize \in BOOLEAN :
    /\ LET previous == GetPreviousSibling(state.document, key)
       IN previous # <<>> =>
            (previous[1].kind = "text") = (GetNode(state.document, key).kind = "text")
    /\ Called([type |-> "joinNodeByKey", key |-> key, normalize |-> normalize],
              JoinNodeByKey(NewTransform(state), key, normalize))

CallAddMarkByKey ==
  \E key \in TextKeys(state.document), normalize \in BOOLEAN :
    \E sp \in Spans(GetNode(state.document, key)) :
      Called([type |-> "addMarkByKey", key |-> key, offset |-> sp[1], length |-> sp[2],
              mark |-> "italic", normalize |-> normalize],
             AddMarkByKey(NewTransform(state), key, sp[1], sp[2], "italic", normalize))

CallRemoveMarkByKey ==
  \E key \in TextKeys(state.document), normalize \in BOOLEAN :
    \E sp \in Spans(GetNode(state.document, key)) :
      Called([type |-> "removeMarkByKey", key |-> key, offset |-> sp[1], length |-> sp[2],
              mark |-> "bold", normalize |-> normalize],
             RemoveMarkByKey(NewTransform(state), key, sp[1], sp[2], "bold", normalize))

CallSetMarkByKey ==
  \E key \in TextKeys(state.document), normalize \in BOOLEAN :
    \E sp \in Spans(GetNode(state.document, key)) :
      Called([type |-> "setMarkByKey", key |-> key, offset |-> sp[1], length |-> sp[2],
              mark |-> "bold", properties |-> "strong", normalize |-> normalize],
             SetMarkByKey(NewTransform(state), key, sp[1], sp[2], "bold", "strong", normalize))

CallInsertTextByKey ==
  \E key \in TextKeys(state.document), normalize \in BOOLEAN :
    \E offset \in 0..Size(GetNode(state.document, key)) :
      Called([type |-> "insertTextByKey", key |-> key, offset |-> offset, text |-> <<"x">>,
              marks |-> {}, normalize |-> normalize],
             InsertTextByKey(NewTransform(state), key, offset, <<"x">>, {}, normalize))

CallSplitNodeByKey ==
  \E key \in Keys(state.document) \ {state.document.key}, normalize \in BOOLEAN :
    \E position \in 0..Size(GetNode(state.document, key)) :
      Called([type |-> "splitNodeByKey", key |-> key, position |-> position,
              normalize |-> normalize],
             SplitNodeByKey(NewTransform(state), key, position, normalize))

CallSetNodeByKey ==
  \E key \in Keys(state.document), normalize \in BOOLEAN :
    \E properties \in NodeProperties(GetNode(state.document, key)) :
      Called([type |-> "setNodeByKey", key |-> key, properties |-> properties,
              normalize |-> normalize],
             SetNodeByKey(NewTransform(state), key, properties, normalize))

\* The keys of the containers between the document and the node with key,
\* the document excluded.
AncestorKeys(document, key) ==
  LET path == GetPath(document, key)
  IN {AssertPath(document, SubSeq(path, 1, n)).key : n \in 1..(Len(path) - 1)}

\* splitDescendantsByKey splits the node with key: it is the text or an
\* ancestor of it below the document.
CallSplitDescendantsByKey ==
  \E textKey \in TextKeys(state.document), normalize \in BOOLEAN :
    \E key \in AncestorKeys(state.document, textKey) \cup {textKey} :
      \E textOffset \in 0..Size(GetNode(state.document, textKey)) :
        Called([type |-> "splitDescendantsByKey", key |-> key, textKey |-> textKey,
                textOffset |-> textOffset, normalize |-> normalize],
               SplitDescendantsByKey(NewTransform(state), key, textKey, textOffset, normalize))

\* The container a caller hands to wrapInlineByKey or wrapBlockByKey, as
\* Normalize.inline or Normalize.block creates it with a key of the key
\* generator: empty, or carrying a child.
Templates(kind, k) ==
  {Container(kind, k, <<>>), Container(kind, k, <<Text(k + 1, Chars(<<"t">>, {}))>>)}

\* The transform with the two keys of a template taken from the generator.
TwoKeysDrawn(tr) == [tr EXCEPT !.state.keygen = @ + 2]

CallWrapInlineByKey ==
  \E key \in Keys(state.document) \ {state.document.key}, normalize \in BOOLEAN :
    \E inline \in Templates("inline", state.keygen) :
      Called([type |-> "wrapInlineByKey", key |-> key, container |-> inline,
              normalize |-> normalize],
             TwoKeysDrawn(WrapInlineByKey(NewTransform(state), key, inline, normalize)))

CallWrapBlockByKey ==
  \E key \in Keys(state.document) \ {state.document.key}, normalize \in BOOLEAN :
    \E block \in Templates("block", state.keygen) :
      Called([type |-> "wrapBlockByKey", key |-> key, container |-> block,
              normalize |-> normalize],
             TwoKeysDrawn(WrapBlockByKey(NewTransform(state), key, block, normalize)))

(***************************************************************************)
(* Spec: every operation of the applier, in any order.                     *)
(***************************************************************************)
Init == InitOf(StatesA \cup StatesB)

Next ==
  \/ More /\ DoAddMark({"bold"})
  \/ More /\ DoInsertNode
  \/ More /\ DoInsertText({<<"x">>}, {{"bold"}})
  \/ More /\ DoJoinNode
  \/ More /\ DoMoveNode
  \/ More /\ DoRemoveMark({"bold"})
  \/ More /\ DoRemoveNode
  \/ More /\ DoRemoveText
  \/ More /\ DoSetData
  \/ More /\ DoSetMark
  \/ More /\ DoSetNode
  \/ More /\ DoSetSelection
  \/ More /\ DoSplitNode
  \/ More /\ DoUnknown

Spec == Init /\ [][Next]_vars
(***************************************************************************)
(* SpecText: insert_text and remove_text with every string and mark set.   *)
(***************************************************************************)
InitText == InitOf(StatesB \cup StatesC)

NextText ==
  \/ More /\ DoInsertText(Strings, MarkSets)
  \/ More /\ DoRemoveText

SpecText == InitText /\ [][NextText]_vars

(***************************************************************************)
(* SpecRanges: removeTextByKey on texts whose ranges the mark operations   *)
(* have cut in every way.                                                  *)
(***************************************************************************)
InitRanges == InitOf(StatesB)

NextRanges ==
  \/ More /\ DoAddMark(Marks)
  \/ More /\ DoRemoveMark(Marks)
  \/ More /\ DoSetMark
  \/ More /\ CallRemoveTextByKey

SpecRanges == InitRanges /\ [][NextRanges]_vars

(***************************************************************************)
(* SpecSplitJoin: split_node, join_node and joinNodeByKey.                 *)
(***************************************************************************)
InitSplitJoin == InitOf(StatesA \cup StatesB \cup StatesC)

NextSplitJoin ==
  \/ More /\ DoSplitNode
  \/ More /\ DoJoinNode
  \/ More /\ CallJoinNodeByKey

SpecSplitJoin == InitSplitJoin /\ [][NextSplitJoin]_vars

(***************************************************************************)
(* SpecMove: the transforms that move and remove nodes, and move_node.     *)
(***************************************************************************)
InitMove ==
  InitOf(StatesOf(DocA, 8, {Sel(4, 0, 4, 1, FALSE), Sel(2, 1, 5, 1, FALSE)}) \cup StatesB)

NextMove ==
  \/ More /\ DoMoveNode
  \/ More /\ DoRemoveNode
  \/ More /\ CallMoveNodeByKey
  \/ More /\ CallRemoveNodeByKey
  \/ More /\ CallUnwrapNodeByKey

SpecMove == InitMove /\ [][NextMove]_vars

(***************************************************************************)
(* SpecByKey: the transforms that apply one operation.                     *)
(***************************************************************************)
InitByKey == InitOf(StatesOf(DocA, 8, {Sel(2, 1, 5, 1, FALSE)}) \cup StatesB)

NextByKey ==
  \/ More /\ CallAddMarkByKey
  \/ More /\ CallRemoveMarkByKey
  \/ More /\ CallSetMarkByKey
  \/ More /\ CallInsertTextByKey
  \/ More /\ CallRemoveTextByKey
  \/ More /\ CallSplitNodeByKey
  \/ More /\ CallJoinNodeByKey
  \/ More /\ CallMoveNodeByKey
  \/ More /\ CallSetNodeByKey

SpecByKey == InitByKey /\ [][NextByKey]_vars

(***************************************************************************)
(* SpecComposite: the transforms built from other transforms.              *)
(***************************************************************************)
InitComposite ==
  InitOf(StatesOf(DocA, 8, {Sel(2, 1, 5, 1, FALSE), Sel(4, 0, 4, 1, FALSE)}) \cup StatesB)

NextComposite ==
  \/ More /\ CallSplitDescendantsByKey
  \/ More /\ CallUnwrapNodeByKey
  \/ More /\ CallWrapInlineByKey
  \/ More /\ CallWrapBlockByKey

SpecComposite == InitComposite /\ [][NextComposite]_vars

(***************************************************************************)
(* SpecOffsets: the operations that change the length of a text or the     *)
(* text a point is on, and removeTextByKey.                                *)
(***************************************************************************)
InitOffsets == InitOf(StatesB \cup StatesC)

NextOffsets ==
  \/ More /\ DoInsertText(Strings, MarkSets)
  \/ More /\ DoRemoveText
  \/ More /\ DoSplitNode
  \/ More /\ DoJoinNode
  \/ More /\ CallRemoveTextByKey

SpecOffsets == InitOffsets /\ [][NextOffsets]_vars
(***************************************************************************)
(* Properties.                                                             *)
(***************************************************************************)
\* The last call and the state it started from (read only when hist # <<>>).
LastCall == hist[Len(hist)].call

Before == hist[Len(hist)].before

\* The next sibling's path: path with its last index incremented.
NextPath(path) == Front(path) \o <<Last(path) + 1>>

\* The keys of a list of nodes, in order.
KeysOf(nodes) == [i \in 1..Len(nodes) |-> nodes[i].key]

\* The last call applied exactly one operation, of the given type.
SingleOp(type) == hist # <<>> /\ Len(ops) = 1 /\ ops[1].type = type

\* C1 (as claimed): when a move_node, applied directly or by moveNodeByKey,
\* moves the first of exactly three children [A, B, C] to index 2 of the same
\* parent, the children are then [B, A, C].
C1_MoveWithinParentGivesBAC ==
  (/\ SingleOp("move_node")
   /\ Last(ops[1].path) = 0
   /\ ops[1].newPath = Front(ops[1].path) \o <<2>>
   /\ Len(AssertPath(Before.document, Front(ops[1].path)).nodes) = 3)
  => LET was == KeysOf(AssertPath(Before.document, Front(ops[1].path)).nodes)
     IN KeysOf(AssertPath(state.document, Front(ops[1].path)).nodes)
          = <<was[2], was[1], was[3]>>

\* C2 (as claimed): each selection key that is set is the key of a node of
\* the current document.
C2_SelectionKeysResolve ==
  /\ state.selection.anchorKey # Null => HasNode(state.document, state.selection.anchorKey)
  /\ state.selection.focusKey # Null => HasNode(state.document, state.selection.focusKey)

\* C3: no two nodes of the document have the same key; split_node keeps the
\* key of the split node on the left half and adds exactly one key, that of
\* the right half; move_node keeps the set of keys; join_node and
\* remove_node add none.
C3_KeysUnique ==
  /\ \A k \in Keys(state.document) : KeyCount(state.document, k) = 1
  /\ SingleOp("split_node") =>
       /\ AssertPath(state.document, ops[1].path).key = AssertPath(Before.document, ops[1].path).key
       /\ AssertPath(state.document, NextPath(ops[1].path)).key = Before.keygen
       /\ Keys(state.document) = Keys(Before.document) \cup {Before.keygen}
       /\ Before.keygen \notin Keys(Before.document)
  /\ SingleOp("move_node") => Keys(state.document) = Keys(Before.document)
  /\ (SingleOp("join_node") \/ SingleOp("remove_node")) =>
       /\ Keys(state.document) \subseteq Keys(Before.document)
       /\ Keys(state.document) # Keys(Before.document)

\* C3 witness: a split_node followed by a move_node of the new right half.
C3_Witness ==
  /\ Len(hist) = 2
  /\ hist[1].call.type = "split_node"
  /\ hist[2].call.type = "move_node"
  /\ AssertPath(hist[2].before.document, hist[2].call.path).key = hist[1].before.keygen
  /\ Front(hist[2].call.path) # Front(hist[2].call.newPath)

\* A point of a selection as <<key, offset>>.
Anchor(sel) == <<sel.anchorKey, sel.anchorOffset>>

Focus(sel) == <<sel.focusKey, sel.focusOffset>>

\* Where insert_text of n characters at offset on the text with key leaves a
\* point.
AfterInsert(point, key, offset, n) ==
  IF point[1] = key /\ point[2] >= offset THEN <<point[1], point[2] + n>> ELSE point

\* C4: insert_text of n characters at offset k on text T moves each point of
\* the selection that is on T at an offset >= k forward by n and leaves every
\* other point where it was.
C4_InsertTextMovesPoints ==
  SingleOp("insert_text") =>
    LET key == AssertPath(Before.document, ops[1].path).key
        n == Len(ops[1].text)
    IN /\ Anchor(state.selection) = AfterInsert(Anchor(Before.selection), key, ops[1].offset, n)
       /\ Focus(state.selection) = AfterInsert(Focus(Before.selection), key, ops[1].offset, n)

\* C4 witness: the anchor at offset 5, two characters inserted at offset 5:
\* the anchor is at 7, and a focus on another node has not moved.
C4_Witness ==
  /\ SingleOp("insert_text")
  /\ ops[1].offset = 5
  /\ Len(ops[1].text) = 2
  /\ Anchor(Before.selection) = <<2, 5>>
  /\ AssertPath(Before.document, ops[1].path).key = 2
  /\ Anchor(state.selection) = <<2, 7>>
  /\ Focus(state.selection) = <<4, 1>>

\* The first call split the node at a path and the second joined the right
\* half back.
SplitThenJoin ==
  /\ Len(hist) = 2
  /\ hist[1].call.type = "split_node"
  /\ hist[2].call.type = "join_node"
  /\ hist[2].call.path = NextPath(hist[1].call.path)

InsertThenRemove ==
  /\ Len(hist) = 2
  /\ hist[1].call.type = "insert_text"
  /\ hist[2].call.type = "remove_text"
  /\ hist[2].call.path = hist[1].call.path
  /\ hist[2].call.offset = hist[1].call.offset
  /\ Len(hist[2].call.text) = Len(hist[1].call.text)

\* C6: insert_text of s at an offset followed by remove_text of Len(s)
\* characters at that offset leaves the node with the text and the ranges
\* it had.
C6_InsertRemoveRoundTrip ==
  InsertThenRemove =>
    LET was == AssertPath(hist[1].before.document, hist[1].call.path)
        now == AssertPath(state.document, hist[1].call.path)
    IN /\ TextOf(now) = TextOf(was)
       /\ GetRanges(now) = GetRanges(was)

\* C6 witness: the inserted string carried other marks than its
\* neighbours, so that it cut a range in two.
C6_Witness ==
  /\ InsertThenRemove
  /\ Len(GetRanges(AssertPath(hist[2].before.document, hist[1].call.path)))
       = Len(GetRanges(AssertPath(hist[1].before.document, hist[1].call.path))) + 2

\* C7: removeTextByKey(key, offset, length) leaves the text of the node
\* with exactly the characters [offset, offset + length) deleted, however
\* the text is cut into ranges.
C7_RemoveTextByKeyText ==
  (hist # <<>> /\ LastCall.type = "removeTextByKey") =>
    LET was == TextOf(GetNode(Before.document, LastCall.key))
    IN TextOf(GetNode(state.document, LastCall.key))
         = Take(was, LastCall.offset) \o Skip(was, LastCall.offset + LastCall.length)

\* C7 witness: a removal that took characters from three ranges.
C7_Witness ==
  /\ hist # <<>>
  /\ LastCall.type = "removeTextByKey"
  /\ Len(GetRanges(GetNode(Before.document, LastCall.key))) = 3
  /\ LastCall.length = 3
  /\ Len(ops) = 3
  /\ \A i \in 1..3 : Len(ops[i].text) = 1

\* unwrapNodeByKey was called on the only child of its parent.
UnwrappedOnlyChild ==
  /\ hist # <<>>
  /\ LastCall.type = "unwrapNodeByKey"
  /\ Len(GetParent(Before.document, LastCall.key).nodes) = 1

\* C8: unwrapNodeByKey on the only child of its parent leaves the node a
\* child of the grandparent at the index the parent had, and the parent's
\* key nowhere in the document.
C8_UnwrapOnlyChild ==
  UnwrappedOnlyChild =>
    LET parent == GetParent(Before.document, LastCall.key)
        parentParent == GetParent(Before.document, parent.key)
        parentIndex == IndexOf(parentParent.nodes, parent)
    IN /\ HasNode(state.document, LastCall.key)
       /\ GetPath(state.document, LastCall.key)
            = GetPath(Before.document, parentParent.key) \o <<parentIndex>>
       /\ GetParent(state.document, LastCall.key).key = parentParent.key
       /\ GetNode(state.document, LastCall.key) = GetNode(Before.document, LastCall.key)
       /\ ~HasNode(state.document, parent.key)

\* C8 witness: the only child of a parent that has siblings before and
\* after it.
C8_Witness ==
  /\ UnwrappedOnlyChild
  /\ LET parent == GetParent(Before.document, LastCall.key)
         parentParent == GetParent(Before.document, parent.key)
     IN /\ IndexOf(parentParent.nodes, parent) = 1
        /\ Len(parentParent.nodes) = 3

\* Where remove_node of the node at path is claimed to put a point that was
\* inside it: the end of the text before the removed subtree, else the start
\* of the text after it, else nowhere.
Relocated(document, path) ==
  LET node == AssertPath(document, path)
      prev == GetPreviousText(document, node.key)
      next == GetNextText(document, node.key)
  IN IF prev # <<>> THEN <<prev[1].key, Size(prev[1])>>
     ELSE IF next # <<>> THEN <<next[1].key, 0>>
     ELSE <<Null, 0>>

\* C9 (as claimed): remove_node of a subtree holding the anchor or the focus
\* of the selection puts that point on a text that is still there: at the end
\* of the text before the subtree, else at the start of the text after it;
\* the selection is unset only if no text is left.
C9_RemoveNodeRelocates ==
  (SingleOp("remove_node") /\ IsSet(Before.selection)) =>
    LET node == AssertPath(Before.document, ops[1].path)
        to == Relocated(Before.document, ops[1].path)
    IN /\ HasNode(node, Before.selection.anchorKey) => Anchor(state.selection) = to
       /\ HasNode(node, Before.selection.focusKey) => Focus(state.selection) = to
       /\ ~IsSet(state.selection) => Texts(state.document) = <<>>

\* The last call removed, by remove_node or removeNodeByKey, a node holding
\* the only text of the document, with both points of the selection on it.
RemovedOnlyText ==
  /\ hist # <<>>
  /\ LastCall.type \in {"remove_node", "removeNodeByKey"}
  /\ Len(Texts(Before.document)) = 1
  /\ Before.selection.anchorKey = Texts(Before.document)[1].key
  /\ Before.selection.focusKey = Texts(Before.document)[1].key
  /\ HasNode(AssertPath(Before.document, ops[1].path), Texts(Before.document)[1].key)

\* C10: removing the node that holds both points of the selection, when the
\* document has no other text, leaves the selection unset.
C10_RemoveOnlyTextDeselects ==
  RemovedOnlyText =>
    /\ state.selection.anchorKey = Null
    /\ state.selection.focusKey = Null

\* C10 witness: removeNodeByKey of the text itself.
C10_Witness ==
  /\ RemovedOnlyText
  /\ LastCall.type = "removeNodeByKey"
  /\ LastCall.key = Before.selection.anchorKey

\* The names of the transform functions, which are not operation tags.
TransformNames ==
  {"addMarkByKey", "insertNodeByKey", "insertTextByKey", "joinNodeByKey", "moveNodeByKey",
   "removeMarkByKey", "removeNodeByKey", "removeTextByKey", "setMarkByKey", "setNodeByKey",
   "splitNodeByKey", "splitDescendantsByKey", "unwrapNodeByKey", "wrapInlineByKey",
   "wrapBlockByKey"}

\* joinNodeByKey was called on a first child.
JoinedFirstChild ==
  /\ hist # <<>>
  /\ LastCall.type = "joinNodeByKey"
  /\ GetPreviousSibling(Before.document, LastCall.key) = <<>>

\* C11: joinNodeByKey on a node without a previous sibling throws before
\* any operation is applied: the state is the state before the call, and
\* the normalizer is not called.
C11_JoinWithoutPreviousThrows ==
  JoinedFirstChild =>
    /\ threw
    /\ ops = <<>>
    /\ norm = <<>>
    /\ state = Before

\* C11 witness: the second call, on the first text of a block that has
\* other children, with a selection set.
C11_Witness ==
  /\ JoinedFirstChild
  /\ Len(hist) = 2
  /\ threw
  /\ Len(GetParent(Before.document, LastCall.key).nodes) > 1
  /\ IsSet(state.selection)

\* Two states with the same document, selection and data.
SameContent(a, b) ==
  /\ a.document = b.document
  /\ a.selection = b.selection
  /\ a.data = b.data

\* The last call was applyOperation itself, not a transform function.
OperationCalled == hist # <<>> /\ LastCall.type \notin TransformNames

\* C12: applyOperation throws and returns no state for an operation whose
\* tag is not one of the 13 of APPLIERS, and for each of the 13 returns what
\* the handler of that tag returns.  The tag "constructor" is returned the
\* input state with no error.
C12_UnknownTagThrows ==
  OperationCalled =>
    /\ LastCall.type \notin Types => (threw /\ ops = <<>>)
    /\ LastCall.type \in Types => (~threw /\ ops = <<LastCall>>)
    /\ LastCall.type = "add_mark" => SameContent(state, ApplyAddMark(Before, LastCall))
    /\ LastCall.type = "insert_node" => SameContent(state, ApplyInsertNode(Before, LastCall))
    /\ LastCall.type = "insert_text" => SameContent(state, ApplyInsertText(Before, LastCall))
    /\ LastCall.type = "join_node" => SameContent(state, ApplyJoinNode(Before, LastCall))
    /\ LastCall.type = "move_node" => SameContent(state, ApplyMoveNode(Before, LastCall))
    /\ LastCall.type = "remove_mark" => SameContent(state, ApplyRemoveMark(Before, LastCall))
    /\ LastCall.type = "remove_node" => SameContent(state, ApplyRemoveNode(Before, LastCall))
    /\ LastCall.type = "remove_text" => SameContent(state, ApplyRemoveText(Before, LastCall))
    /\ LastCall.type = "set_data" => SameContent(state, ApplySetData(Before, LastCall))
    /\ LastCall.type = "set_mark" => SameContent(state, ApplySetMark(Before, LastCall))
    /\ LastCall.type = "set_node" => SameContent(state, ApplySetNode(Before, LastCall))
    /\ LastCall.type = "set_selection" => SameContent(state, ApplySetSelection(Before, LastCall))
    /\ LastCall.type = "split_node" => SameContent(state, ApplySplitNode(Before, LastCall))

CompositeNames ==
  {"splitDescendantsByKey", "unwrapNodeByKey", "wrapBlockByKey", "wrapInlineByKey"}

\* C14: a composite transform calls the normalizer not at all with
\* normalize: false, and otherwise once, after the last of its operations;
\* splitDescendantsByKey calls it on the parent of the node with key.
C14_CompositeNormalizesOnce ==
  (hist # <<>> /\ LastCall.type \in CompositeNames) =>
    /\ ~LastCall.normalize => norm = <<>>
    /\ LastCall.normalize => (Len(norm) = 1 /\ norm[1].after = Len(ops))
    /\ (LastCall.type = "splitDescendantsByKey" /\ LastCall.normalize) =>
         norm[1].key = GetParent(Before.document, LastCall.key).key

\* C14 witness: splitDescendantsByKey from a text up to its grandparent,
\* three splits and one normalizer call.
C14_Witness ==
  /\ hist # <<>>
  /\ LastCall.type = "splitDescendantsByKey"
  /\ LastCall.normalize
  /\ Len(ops) = 3
  /\ Len(norm) = 1
  /\ norm[1].after = 3

\* The transforms said to normalize the parent of their node.
ParentNormalized ==
  {"addMarkByKey", "removeMarkByKey", "setMarkByKey", "insertTextByKey", "removeTextByKey",
   "splitNodeByKey", "joinNodeByKey"}

\* The normalizer was called once, on key.
Normalized(key) == Len(norm) = 1 /\ norm[1].key = key

\* A transform that applies one kind of operation was called with
\* normalization enabled, and did not throw.
NormalizingCall ==
  /\ hist # <<>>
  /\ LastCall.type \in ParentNormalized \cup {"moveNodeByKey", "setNodeByKey"}
  /\ LastCall.normalize
  /\ ~threw

\* C15 (as claimed): with normalization enabled the mark, text, split and
\* join transforms call the normalizer on the parent of the node,
\* moveNodeByKey on the common ancestor of the node and the destination,
\* setNodeByKey on the node.
C15_NormalizesParent ==
  NormalizingCall =>
    /\ LastCall.type \in ParentNormalized =>
         Normalized(GetParent(Before.document, LastCall.key).key)
    /\ LastCall.type = "moveNodeByKey" =>
         Normalized(GetCommonAncestor(Before.document, LastCall.key, LastCall.newKey))
    /\ LastCall.type = "setNodeByKey" => Normalized(LastCall.key)

\* C15 (amended): as claimed, except that removeTextByKey calls the
\* normalizer on the closest block above the text, which is the parent only
\* when the parent is a block.
C15_NormalizesScope ==
  NormalizingCall =>
    /\ LastCall.type \in ParentNormalized \ {"removeTextByKey"} =>
         Normalized(GetParent(Before.document, LastCall.key).key)
    /\ LastCall.type = "removeTextByKey" =>
         Normalized(GetClosestBlock(Before.document, LastCall.key))
    /\ LastCall.type = "moveNodeByKey" =>
         Normalized(GetCommonAncestor(Before.document, LastCall.key, LastCall.newKey))
    /\ LastCall.type = "setNodeByKey" => Normalized(LastCall.key)

\* C15 witness: removeTextByKey on a text inside an inline: the block
\* above the inline is normalized, not the inline.
C15_Witness ==
  /\ NormalizingCall
  /\ LastCall.type = "removeTextByKey"
  /\ GetParent(Before.document, LastCall.key).kind = "inline"
  /\ Len(norm) = 1
  /\ GetNode(Before.document, norm[1].key).kind = "block"

\* The removal of the node at path shifted the parent that newPath names:
\* the old parent path is a strict prefix of the new parent path and the
\* node's index is less than the new path's index at that depth.
Shifted(path, newPath) ==
  /\ Len(newPath) > Len(path)
  /\ IsPrefix(Front(path), Front(newPath))
  /\ Last(path) < newPath[Len(path)]

\* C16: after move_node the moved node, unchanged, is a child of the node
\* that the new parent path named in the document of before the move.
C16_MoveReachesNamedParent ==
  SingleOp("move_node") =>
    LET node == AssertPath(Before.document, ops[1].path)
        target == AssertPath(Before.document, Front(ops[1].newPath))
    IN /\ HasNode(state.document, node.key)
       /\ GetNode(state.document, node.key) = node
       /\ GetParent(state.document, node.key).key = target.key

\* C16 witness: a move below the document into a later sibling's subtree,
\* where the index had to be decremented.
C16_Witness ==
  /\ SingleOp("move_node")
  /\ Len(ops[1].path) >= 2
  /\ Shifted(ops[1].path, ops[1].newPath)
  /\ GetParent(state.document, AssertPath(Before.document, ops[1].path).key).key
       = AssertPath(Before.document, Front(ops[1].newPath)).key

\* splitDescendantsByKey was called with a proper ancestor of the text.
SplitFromAncestor ==
  /\ hist # <<>>
  /\ LastCall.type = "splitDescendantsByKey"
  /\ LastCall.key # LastCall.textKey

\* The number of nodes on the path from the text up to the node with key,
\* that node excluded.
NodesBelowKey ==
  Len(GetPath(Before.document, LastCall.textKey)) - Len(GetPath(Before.document, LastCall.key))

\* C17 (as claimed): splitDescendantsByKey with key a proper ancestor of
\* the text splits the text and the ancestors below key and not the node
\* with key: key gets no new sibling and as many split_node operations are
\* applied as there are nodes from the text up to key, key excluded.
C17_SplitsBelowKey ==
  SplitFromAncestor =>
    /\ Len(ops) = NodesBelowKey
    /\ \A i \in 1..Len(ops) : ops[i].type = "split_node"
    /\ Len(GetParent(state.document, LastCall.key).nodes)
         = Len(GetParent(Before.document, LastCall.key).nodes)

\* C17 (amended): it splits the text and every ancestor up to and
\* including the node with key, from the text upward: one split_node more
\* than there are nodes below key, and key gets a new sibling right after
\* it, with a new key.
C17_SplitsThroughKey ==
  SplitFromAncestor =>
    LET textPath == GetPath(Before.document, LastCall.textKey)
        keyPath == GetPath(Before.document, LastCall.key)
        parent == GetParent(state.document, LastCall.key)
    IN /\ Len(ops) = NodesBelowKey + 1
       /\ \A i \in 1..Len(ops) :
            /\ ops[i].type = "split_node"
            /\ ops[i].path = SubSeq(textPath, 1, Len(textPath) + 1 - i)
       /\ Len(parent.nodes) = Len(GetParent(Before.document, LastCall.key).nodes) + 1
       /\ AssertPath(state.document, keyPath).key = LastCall.key
       /\ AssertPath(state.document, NextPath(keyPath)).key \notin Keys(Before.document)

\* C17 witness: a text two levels below the node with key: three splits,
\* the last of them of the node with key.
C17_Witness ==
  /\ SplitFromAncestor
  /\ NodesBelowKey = 2
  /\ Len(ops) = 3
  /\ ops[3].path = GetPath(Before.document, LastCall.key)

RECURSIVE Concat(_, _)
\* The texts of the nodes i and on of a list, concatenated.
Concat(texts, i) == IF i > Len(texts) THEN <<>> ELSE TextOf(texts[i]) \o Concat(texts, i + 1)

\* The text of a node: its texts in document order, concatenated.
DocText(node) == Concat(Texts(node), 1)

\* p comes before q in document order, neither being above the other.
Precedes(p, q) ==
  \E i \in 1..Min(Len(p), Len(q)) : SubSeq(p, 1, i - 1) = SubSeq(q, 1, i - 1) /\ p[i] < q[i]

\* C18: after splitDescendantsByKey the node with key holds the text up
\* to textOffset, the ancestors of the text and the nodes that came before
\* the text, all under their keys; its new right sibling holds, under new
\* keys for the split nodes, the text from textOffset on and the nodes that
\* came after the text; the text of the document reads as before.
C18_SplitKeepsOrder ==
  (hist # <<>> /\ LastCall.type = "splitDescendantsByKey") =>
    LET document == Before.document
        textPath == GetPath(document, LastCall.textKey)
        keyPath == GetPath(document, LastCall.key)
        left == AssertPath(state.document, keyPath)
        right == AssertPath(state.document, NextPath(keyPath))
        others == {q \in Paths(document) : IsPrefix(keyPath, q) /\ ~IsPrefix(q, textPath)}
        before == {AssertPath(document, q).key : q \in {o \in others : Precedes(o, textPath)}}
        after == {AssertPath(document, q).key : q \in {o \in others : Precedes(textPath, o)}}
        chain == {AssertPath(document, SubSeq(textPath, 1, n)).key :
                    n \in Len(keyPath)..Len(textPath)}
        text == TextOf(GetNode(document, LastCall.textKey))
    IN /\ DocText(state.document) = DocText(document)
       /\ Keys(left) = chain \cup before
       /\ Keys(right) \cap Keys(document) = after
       /\ Cardinality(Keys(right) \ Keys(document)) = Cardinality(chain)
       /\ TextOf(GetNode(state.document, LastCall.textKey)) = Take(text, LastCall.textOffset)
       /\ Last(Texts(left)).key = LastCall.textKey
       /\ TextOf(Texts(right)[1]) = Skip(text, LastCall.textOffset)
       /\ DocText(left) \o DocText(right) = DocText(GetNode(document, LastCall.key))

\* C18 witness: a text two levels below the node with key, with a node
\* before it and a node after it.
C18_Witness ==
  /\ hist # <<>>
  /\ LastCall.type = "splitDescendantsByKey"
  /\ Len(ops) = 3
  /\ LET keyPath == GetPath(Before.document, LastCall.key)
     IN /\ Len(Texts(AssertPath(state.document, keyPath))) = 2
        /\ Len(Texts(AssertPath(state.document, NextPath(keyPath)))) = 2

\* The keys of the texts of a node, in document order.
TextKeysInOrder(node) == KeysOf(Texts(node))

\* unwrapNodeByKey was called (on a node whose parent is not the document).
Unwrapped == hist # <<>> /\ LastCall.type = "unwrapNodeByKey"

\* C19: after unwrapNodeByKey the node, unchanged, is a child of its former
\* grandparent and the texts of the document are in the order they were in:
\* a first child is right before its parent, a last child right after it,
\* the parent keeping its other children, and a child in the middle is
\* between the parent, which keeps the children before it, and a new node
\* with the children after it.
C19_UnwrapKeepsOrder ==
  Unwrapped =>
    LET key == LastCall.key
        parent == GetParent(Before.document, key)
        index == IndexOf(parent.nodes, GetNode(parent, key))
        parentParent == GetParent(Before.document, parent.key)
        parentIndex == IndexOf(parentParent.nodes, parent)
        siblings == GetNode(state.document, parentParent.key).nodes
        at(i) == siblings[i + 1]
    IN /\ GetParent(state.document, key).key = parentParent.key
       /\ GetNode(state.document, key) = GetNode(Before.document, key)
       /\ TextKeysInOrder(state.document) = TextKeysInOrder(Before.document)
       /\ Len(parent.nodes) = 1 =>
            /\ at(parentIndex).key = key
            /\ Len(siblings) = Len(parentParent.nodes)
       /\ (Len(parent.nodes) > 1 /\ index = 0) =>
            /\ at(parentIndex).key = key
            /\ at(parentIndex + 1) = [parent EXCEPT !.nodes = Tail(parent.nodes)]
       /\ (Len(parent.nodes) > 1 /\ index = Len(parent.nodes) - 1) =>
            /\ at(parentIndex) = [parent EXCEPT !.nodes = Front(parent.nodes)]
            /\ at(parentIndex + 1).key = key
       /\ (0 < index /\ index < Len(parent.nodes) - 1) =>
            /\ at(parentIndex) = [parent EXCEPT !.nodes = Take(parent.nodes, index)]
            /\ at(parentIndex + 1).key = key
            /\ at(parentIndex + 2).nodes = Skip(parent.nodes, index + 1)
            /\ at(parentIndex + 2).kind = parent.kind
            /\ at(parentIndex + 2).key \notin Keys(Before.document)

\* C19 witness: a child in the middle, now between the two halves of its
\* parent.
C19_Witness ==
  /\ Unwrapped
  /\ LET parent == GetParent(Before.document, LastCall.key)
         index == IndexOf(parent.nodes, GetNode(parent, LastCall.key))
     IN 0 < index /\ index < Len(parent.nodes) - 1
  /\ Len(ops) = 2
  /\ GetParent(state.document, LastCall.key).key
       = GetParent(Before.document, GetParent(Before.document, LastCall.key).key).key

\* wrapInlineByKey or wrapBlockByKey was called.
Wrapped == hist # <<>> /\ LastCall.type \in {"wrapInlineByKey", "wrapBlockByKey"}

\* C20: after wrapInlineByKey or wrapBlockByKey of the node at index i of
\* its parent, child i of the parent is the container, of the template's
\* key and kind, its only child is the node, unchanged, and the other
\* children of the parent are where they were.
C20_WrapPutsContainerInPlace ==
  Wrapped =>
    LET node == GetNode(Before.document, LastCall.key)
        was == GetParent(Before.document, LastCall.key)
        now == GetNode(state.document, was.key)
        i == IndexOf(was.nodes, node) + 1
    IN /\ Len(now.nodes) = Len(was.nodes)
       /\ now.nodes[i].key = LastCall.container.key
       /\ now.nodes[i].kind = LastCall.container.kind
       /\ now.nodes[i].nodes = <<node>>
       /\ \A j \in 1..Len(was.nodes) : j # i => now.nodes[j] = was.nodes[j]

\* C20 witness: a template carrying a child, wrapped around a node that has
\* a sibling on each side.
C20_Witness ==
  /\ Wrapped
  /\ LastCall.container.nodes # <<>>
  /\ LET was == GetParent(Before.document, LastCall.key)
     IN /\ Len(was.nodes) = 3
        /\ was.nodes[2].key = LastCall.key
        /\ GetNode(state.document, was.key).nodes[2].key = LastCall.container.key
  /\ GetParent(state.document, LastCall.key).key = LastCall.container.key

RECURSIVE RangeStart(_, _)
\* The offset at which range i of ranges starts.
RangeStart(ranges, i) ==
  IF i = 1 THEN 0 ELSE RangeStart(ranges, i - 1) + Len(ranges[i - 1].text)

\* The last call was removeTextByKey.
RemoveTextByKeyCalled == hist # <<>> /\ LastCall.type = "removeTextByKey"

\* The ranges the text had when removeTextByKey was called.
RangesBefore == GetRanges(GetNode(Before.document, LastCall.key))

\* The part of range i inside the span of the call, as <<start, end>>.
Intersection(i) ==
  <<Max(RangeStart(RangesBefore, i), LastCall.offset),
    Min(RangeStart(RangesBefore, i) + Len(RangesBefore[i].text),
        LastCall.offset + LastCall.length)>>

\* The ranges that share a character with the span of the call.
Overlapping == {i \in 1..Len(RangesBefore) : Intersection(i)[1] < Intersection(i)[2]}

\* C21: removeTextByKey emits one remove_text for each range that shares a
\* character with [offset, offset + length), its text the characters shared,
\* and none for any other range, a range touching the span at a boundary
\* included.
C21_OneRemovalPerOverlap ==
  RemoveTextByKeyCalled =>
    /\ Len(ops) = Cardinality(Overlapping)
    /\ \A n \in 1..Len(ops) : ops[n].type = "remove_text" /\ ops[n].text # <<>>
    /\ \A i \in Overlapping :
         \E n \in 1..Len(ops) :
           /\ ops[n].offset = Intersection(i)[1]
           /\ ops[n].text = SubSeq(TextOf(GetNode(Before.document, LastCall.key)),
                                   Intersection(i)[1] + 1, Intersection(i)[2])

\* The state in which operation n of the last call was applied.
StateAt(n) == ApplyAll(NewTransform(Before), SubSeq(ops, 1, n - 1)).state

\* The characters operation n of the last call found at its span.
FoundAt(n) ==
  SubSeq(TextOf(AssertPath(StateAt(n).document, ops[n].path)),
         ops[n].offset + 1, ops[n].offset + Len(ops[n].text))

\* C22: removeTextByKey applies its remove_text operations in strictly
\* decreasing order of offset, and each finds at its span, when it is
\* applied, exactly the characters it names.
C22_RemovalsDescend ==
  RemoveTextByKeyCalled =>
    /\ \A n \in 1..(Len(ops) - 1) : ops[n].offset > ops[n + 1].offset
    /\ \A n \in 1..Len(ops) : FoundAt(n) = ops[n].text

\* The last call was split_node on a text.
SplitText ==
  /\ hist # <<>>
  /\ LastCall.type = "split_node"
  /\ AssertPath(Before.document, LastCall.path).kind = "text"

\* Where a point is after the text key was split at position p, sibling
\* being the key of the right half.
AfterSplit(point, key, p, sibling) ==
  IF point[1] = key /\ point[2] >= p THEN <<sibling, point[2] - p>> ELSE point

PointInRange(document, point) ==
  point[1] # Null =>
    /\ HasNode(document, point[1])
    /\ GetNode(document, point[1]).kind = "text"
    /\ 0 <= point[2]
    /\ point[2] <= Size(GetNode(document, point[1]))

InRange(st) ==
  /\ PointInRange(st.document, Anchor(st.selection))
  /\ PointInRange(st.document, Focus(st.selection))

\* The key, offset and length of the span the last call removed, for a
\* remove_text and for a removeTextByKey.
RemovedSpan ==
  IF LastCall.type = "remove_text"
  THEN <<AssertPath(Before.document, LastCall.path).key, LastCall.offset, Len(LastCall.text)>>
  ELSE <<LastCall.key, LastCall.offset, LastCall.length>>

\* A point strictly inside the span the last call removed.
StrictlyInside(point) ==
  /\ LastCall.type \in {"remove_text", "removeTextByKey"}
  /\ point[1] = RemovedSpan[1]
  /\ RemovedSpan[2] < point[2]
  /\ point[2] < RemovedSpan[2] + RemovedSpan[3]

Addressing == {"path", "newPath", "properties"}

\* C25: applyOperation leaves the operation record it is given as it was:
\* path, newPath and properties hold after the call what they held before,
\* for set_node with a rejected nodes or key entry and for move_node with a
\* shifted destination as for every other operation.
C25_OperationUnchanged ==
  (OperationCalled /\ ~threw) =>
    \A f \in Addressing \cap DOMAIN LastCall :
      /\ f \in DOMAIN hist[Len(hist)].record
      /\ hist[Len(hist)].record[f] = LastCall[f]
=============================================================================
